---- MODULE Spec2Model ----
(***************************************************************************)
(* Model of app.py: a LINE webhook (callback) that dispatches each text    *)
(* message to handle_message, which keeps a per-user record in the         *)
(* process-wide dictionary user_status and, in question mode, classifies   *)
(* the question, composes a prompt from two template files, asks the       *)
(* completion API for an answer and sends it.                                *)
(*                                                                         *)
(* A Python str is modelled as the sequence of its tokens: a token is one  *)
(* whitespace character (" " or "\n") or a maximal run of non-whitespace   *)
(* characters, so str.strip() and == act on tokens exactly as they act on  *)
(* characters.  The Japanese literals of the source are written in ASCII   *)
(* transliteration; the literal is given beside each definition.           *)
(***************************************************************************)
EXTENDS Integers, Sequences, FiniteSets, TLC

\* ------------------------------------------------------------------ bounds
\* user ids that send messages
NumUsers == 2
\* request-handling threads of the web server
NumThreads == 2

Users == 1..NumUsers
Threads == 1..NumThreads

\* ------------------------------------------------------- string literals
\* "質問する"  (app.py:59)
START_TRIGGER == <<"shitsumon_suru">>
\* "別の質問をする"  (app.py:70)
ANOTHER_TRIGGER == <<"betsu_no_shitsumon_wo_suru">>
\* "終了する"  (app.py:79)
END_TRIGGER == <<"shuuryou_suru">>
\* "質問内容を入力してください。"  (app.py:62, 74)
ASK_REPLY == <<"shitsumon_naiyou_wo_nyuuryoku_shite_kudasai.">>
\* "ご利用ありがとうございました。"  (app.py:84)
FAREWELL_REPLY == <<"goriyou_arigatou_gozaimashita.">>
\* "申し訳ございません。現在、回答できません。時間をおいて再度お試しください。"  (app.py:218)
APOLOGY == <<"moushiwake_gozaimasen._genzai_kaitou_dekimasen._jikan_wo_oite_saido_otameshi_kudasai.">>
\* "イベント"  (app.py:151)
CAT_EVENT == <<"ibento">>
\* "スタッフルール"  (app.py:151)
CAT_STAFF == <<"sutaffu_ruuru">>
\* "給与・勤務"  (app.py:151)
CAT_PAY == <<"kyuuyo_kinmu">>
\* ["イベント", "スタッフルール", "給与・勤務"]  (app.py:151)
Labels == {CAT_EVENT, CAT_STAFF, CAT_PAY}
\* "【ユーザーからの質問】"  (app.py:198)
QUESTION_HEADER == "[yuuzaa_kara_no_shitsumon]"
\* the emphasis marker removed from answers (app.py:214)
EMPHASIS == "**"

\* --------------------------------------------------------- Python values
\* None and str values that a variable holding "str or None" can take
None == [isNone |-> TRUE, str |-> <<>>]
Str(s) == [isNone |-> FALSE, str |-> s]
\* Python truthiness of such a value: None and "" are falsy
Truthy(v) == ~v.isNone /\ v.str # <<>>

\* the characters str.strip() takes off: those for which str.isspace() holds.
\* Characters that have no escape in a TLA+ string are written as their
\* Python escape, spelled out ("\\u3000" is the one character U+3000, the
\* full-width space).
Whitespace ==
  {" ", "\t", "\n", "\r", "\f", "\\x0b", "\\x1c", "\\x1d", "\\x1e", "\\x1f",
   "\\x85", "\\xa0", "\\u1680", "\\u2000", "\\u2001", "\\u2002", "\\u2003",
   "\\u2004", "\\u2005", "\\u2006", "\\u2007", "\\u2008", "\\u2009", "\\u200a",
   "\\u2028", "\\u2029", "\\u202f", "\\u205f", "\\u3000"}

IsSpace(tok) == tok \in Whitespace

RECURSIVE lstrip(_)
lstrip(s) == IF s # <<>> /\ IsSpace(Head(s)) THEN lstrip(Tail(s)) ELSE s

RECURSIVE rstrip(_)
rstrip(s) ==
  IF s # <<>> /\ IsSpace(s[Len(s)]) THEN rstrip(SubSeq(s, 1, Len(s) - 1)) ELSE s

\* str.strip()
strip(s) == rstrip(lstrip(s))

\* str.replace(old, ""), for a one-token old
remove(s, old) == SelectSeq(s, LAMBDA tok : tok # old)

\* ---------------------------------------------------------- Template Store
\* prompts/<name> -> the text of the file
FileText ==
  [name \in {"prompt.txt", "ibento_ni_tsuite.txt", "sutaffu_ruuru_ni_tsuite.txt",
             "kyuuyo_kinmu_ni_tsuite.txt"} |->
     CASE name = "prompt.txt" -> <<"base_instructions", "\n">>
       [] name = "ibento_ni_tsuite.txt" -> <<"ibento_reference", "\n">>
       [] name = "sutaffu_ruuru_ni_tsuite.txt" -> <<"sutaffu_ruuru_reference", "\n">>
       [] name = "kyuuyo_kinmu_ni_tsuite.txt" -> <<"kyuuyo_kinmu_reference", "\n">>]

\* ------------------------------------------------------ completion API
\* what openai.ChatCompletion.create does: it raises, or it returns content
ApiError == [ok |-> FALSE, content |-> <<>>]
ApiReturn(content) == [ok |-> TRUE, content |-> content]

\* what the completion API may do on the classification request
ClassifierOutcomes ==
  {ApiError} \cup
  {ApiReturn(c) : c \in {CAT_EVENT, <<" ", "sutaffu_ruuru", "\n">>, CAT_PAY,
                         <<"kyuuyo_kinmu", " ", "desu">>, <<"sonota">>, <<>>}}

\* what the completion API may do on the composed prompt
GeneratorOutcomes ==
  {ApiError} \cup
  {ApiReturn(c) : c \in {<<"kotae">>, <<" ", "**", "kotae", "**", "\n">>}}

\* ------------------------------------------------------- pure functions
\* mutant of classify_question_by_chatgpt: the fallback for a reply outside
\* the label set (app.py:151-152) is missing
classify_without_fallback(question_text, api) ==
  IF ~api.ok THEN CAT_EVENT ELSE strip(api.content)

\* mutant of classify_question_by_chatgpt: the except branch returns "" in
\* place of the default category
classify_error_empty(question_text, api) ==
  IF ~api.ok THEN <<>>
  ELSE LET classification == strip(api.content)
       IN IF classification \notin Labels THEN CAT_EVENT ELSE classification

\* classify_question_by_chatgpt: the label it returns for an API outcome
classify_question_by_chatgpt(question_text, api) ==
  IF ~api.ok THEN CAT_EVENT
  ELSE LET classification == strip(api.content)
       IN IF classification \notin Labels THEN CAT_EVENT ELSE classification

\* map_category_to_file
map_category_to_file(cat) ==
  IF cat = Str(CAT_EVENT) THEN "ibento_ni_tsuite.txt"
  ELSE IF cat = Str(CAT_STAFF) THEN "sutaffu_ruuru_ni_tsuite.txt"
  ELSE IF cat = Str(CAT_PAY) THEN "kyuuyo_kinmu_ni_tsuite.txt"
  ELSE "ibento_ni_tsuite.txt"

\* mutant of build_prompt: the question is put right after the header, on
\* the same line
build_prompt_header_joined(category_file, text) ==
  FileText["prompt.txt"] \o <<"\n", "\n">> \o FileText[category_file]
    \o <<"\n", "\n", QUESTION_HEADER>> \o text \o <<"\n">>

\* build_prompt, given that both files were read
build_prompt(category_file, text) ==
  FileText["prompt.txt"] \o <<"\n", "\n">> \o FileText[category_file]
    \o <<"\n", "\n", QUESTION_HEADER, "\n">> \o text \o <<"\n">>

\* mutant of get_openai_response: the except branch returns "" in place of
\* the apology
get_openai_response_error_empty(p, api) ==
  IF ~api.ok THEN <<>> ELSE remove(strip(api.content), EMPHASIS)

\* get_openai_response: the text it returns for an API outcome
get_openai_response(p, api) ==
  IF ~api.ok THEN APOLOGY ELSE remove(strip(api.content), EMPHASIS)

\* ------------------------------------------------------------------ inputs
\* message texts as they arrive in event.message.text
Texts ==
  {START_TRIGGER, <<"\t", "shitsumon_suru", "\n">>, ANOTHER_TRIGGER,
   END_TRIGGER, <<"shuuryou_suru", "\\u3000">>,
   <<"kyuuyo_ni_tsuite_oshiete">>, <<"shuuryou">>}

Triggers == {START_TRIGGER, ANOTHER_TRIGGER, END_TRIGGER}

\* -------------------------------------------------------------------- state
VARIABLES
  user_status,    \* the dictionary user_status: user id -> record
  pc,             \* per thread: where it is in callback / handle_message
  event,          \* per thread: the request being handled
  user_text,      \* per thread: local user_text of handle_message
  category,       \* per thread: local category of handle_message
  prompt,         \* per thread: local prompt of handle_message
  response_text,  \* per thread: local response_text of handle_message
  status,         \* per thread: HTTP status of the response, 0 while none
  pre,            \* per thread: the user's record when handle_message began
  calls           \* per thread: external calls made for this message, in order

vars == <<user_status, pc, event, user_text, category, prompt, response_text,
          status, pre, calls>>

\* the record handle_message creates for a user it has not seen (app.py:53-56)
DefaultState == [in_question_mode |-> FALSE, current_category |-> None]

NoEvent ==
  [user_id |-> 0, text |-> <<>>, has_signature |-> FALSE, signature_ok |-> FALSE]

\* what the session map holds for u, as handle_message finds it
Lookup(u) ==
  IF u \in DOMAIN user_status
    THEN [registered |-> TRUE, state |-> user_status[u]]
    ELSE [registered |-> FALSE, state |-> DefaultState]

NoLookup == [registered |-> FALSE, state |-> DefaultState]

\* mutant of SetField: the write replaces the whole record, the other field
\* falling back to its default
SetField_WholeRecord(u, field, value) ==
  user_status' = [user_status EXCEPT ![u] = [DefaultState EXCEPT ![field] = value]]

\* user_status[u][field] = value
SetField(u, field, value) ==
  user_status' = [user_status EXCEPT ![u] = [@ EXCEPT ![field] = value]]

Init ==
  /\ user_status = [u \in {} |-> DefaultState]
  /\ pc = [t \in Threads |-> "idle"]
  /\ event = [t \in Threads |-> NoEvent]
  /\ user_text = [t \in Threads |-> <<>>]
  /\ category = [t \in Threads |-> None]
  /\ prompt = [t \in Threads |-> <<>>]
  /\ response_text = [t \in Threads |-> <<>>]
  /\ status = [t \in Threads |-> 0]
  /\ pre = [t \in Threads |-> NoLookup]
  /\ calls = [t \in Threads |-> <<>>]

Goto(t, label) == pc' = [pc EXCEPT ![t] = label]

\* an external call made while handling t's message is noted in calls[t]:
\* which call, whether it returned (ok) or raised, and the text it returned
\* (for "reply": the text it was given)
Record(t, op, ok, content) ==
  calls' = [calls EXCEPT ![t] =
              Append(@, [op |-> op, ok |-> ok, content |-> content])]

\* handle_message returns, handler.handle returns, callback returns 'OK'
ReturnOK(t) ==
  /\ pc' = [pc EXCEPT ![t] = "done"]
  /\ status' = [status EXCEPT ![t] = 200]

\* an exception that nothing in callback catches: the request fails
Raise(t) ==
  /\ pc' = [pc EXCEPT ![t] = "done"]
  /\ status' = [status EXCEPT ![t] = 500]

\* mutant of reply_message: a reply that was not delivered is sent again
reply_message_resend(t, text, delivered) ==
  /\ calls' = [calls EXCEPT ![t] =
                 IF delivered
                   THEN Append(@, [op |-> "reply", ok |-> TRUE, content |-> text])
                   ELSE @ \o <<[op |-> "reply", ok |-> FALSE, content |-> text],
                               [op |-> "reply", ok |-> TRUE, content |-> text]>>]
  /\ ReturnOK(t)

\* line_bot_api.reply_message(event.reply_token, TextSendMessage(text)):
\* the call is made once; it returns or raises
reply_message(t, text, delivered) ==
  /\ Record(t, "reply", delivered, text)
  /\ IF delivered THEN ReturnOK(t) ELSE Raise(t)

\* the X-Line-Signature header of a request: one that verifies against the
\* body, one that does not, or none
SignatureHeaders == {"valid", "invalid", "absent"}

\* callback is entered with a request (app.py:32-36).  Line 34 subscripts
\* request.headers: without the header it raises KeyError, before the try
\* block of line 38, and the request fails
Receive(t) ==
  /\ pc[t] = "idle"
  /\ \E u \in Users, txt \in Texts, header \in SignatureHeaders :
       /\ event' = [event EXCEPT ![t] =
                      [user_id |-> u, text |-> txt,
                       has_signature |-> header # "absent",
                       signature_ok |-> header = "valid"]]
       /\ IF header # "absent"
            THEN Goto(t, "handle") /\ UNCHANGED status
            ELSE Raise(t)
  /\ UNCHANGED <<user_status, user_text, category, prompt, response_text,
                 pre, calls>>

\* mutant of Verify: the signature is not checked
Verify_Unchecked(t) ==
  /\ pc[t] = "handle"
  /\ user_text' = [user_text EXCEPT ![t] = strip(event[t].text)]
  /\ pre' = [pre EXCEPT ![t] = Lookup(event[t].user_id)]
  /\ Goto(t, "L52")
  /\ UNCHANGED <<user_status, event, category, prompt, response_text, status,
                 calls>>

\* handler.handle(body, signature): abort(400) on a bad signature, else
\* handle_message starts and strips the text (app.py:38-41, 48-49)
Verify(t) ==
  /\ pc[t] = "handle"
  /\ IF event[t].signature_ok
       THEN /\ user_text' = [user_text EXCEPT ![t] = strip(event[t].text)]
            /\ pre' = [pre EXCEPT ![t] = Lookup(event[t].user_id)]
            /\ Goto(t, "L52")
            /\ UNCHANGED status
       ELSE /\ pc' = [pc EXCEPT ![t] = "done"]
            /\ status' = [status EXCEPT ![t] = 400]
            /\ UNCHANGED <<user_text, pre>>
  /\ UNCHANGED <<user_status, event, category, prompt, response_text, calls>>

\* if user_id not in user_status (app.py:52)
CheckUser(t) ==
  /\ pc[t] = "L52"
  /\ Goto(t, IF event[t].user_id \in DOMAIN user_status THEN "L59" ELSE "L53")
  /\ UNCHANGED <<user_status, event, user_text, category, prompt,
                 response_text, status, pre, calls>>

\* mutant of NewRecord: a new user starts in question mode
NewRecord_InQuestionMode == [in_question_mode |-> TRUE, current_category |-> None]

\* user_status[user_id] = {...} (app.py:53-56)
NewRecord == DefaultState

\* mutant of CreateUser: the first message of a user puts every record of
\* the dictionary back to the defaults
CreateUser_ResetsStore(t) ==
  /\ pc[t] = "L53"
  /\ user_status' = [u \in DOMAIN user_status \cup {event[t].user_id} |-> NewRecord]
  /\ Goto(t, "L59")
  /\ UNCHANGED <<event, user_text, category, prompt, response_text, status,
                 pre, calls>>

CreateUser(t) ==
  /\ pc[t] = "L53"
  /\ user_status' =
       [u \in DOMAIN user_status \cup {event[t].user_id} |->
          IF u = event[t].user_id THEN NewRecord ELSE user_status[u]]
  /\ Goto(t, "L59")
  /\ UNCHANGED <<event, user_text, category, prompt, response_text, status,
                 pre, calls>>

\* the branch handle_message takes on the text alone (app.py:59, 70, 79)
Branch(text) ==
  IF text = START_TRIGGER THEN "L60"
  ELSE IF text = ANOTHER_TRIGGER THEN "L71"
  ELSE IF text = END_TRIGGER THEN "L80"
  ELSE "L89"

Dispatch(t) ==
  /\ pc[t] = "L59"
  /\ Goto(t, Branch(user_text[t]))
  /\ UNCHANGED <<user_status, event, user_text, category, prompt,
                 response_text, status, pre, calls>>

\* user_status[user_id]["in_question_mode"] = True (app.py:60)
StartSetMode(t) ==
  /\ pc[t] = "L60"
  /\ SetField(event[t].user_id, "in_question_mode", TRUE)
  /\ Goto(t, "L61")
  /\ UNCHANGED <<event, user_text, category, prompt, response_text, status,
                 pre, calls>>

\* mutant of StartSetCategory: the category is not reset
StartSetCategory_Skipped(t) ==
  /\ pc[t] = "L61"
  /\ Goto(t, "L63")
  /\ UNCHANGED <<user_status, event, user_text, category, prompt,
                 response_text, status, pre, calls>>

\* user_status[user_id]["current_category"] = None (app.py:61)
StartSetCategory(t) ==
  /\ pc[t] = "L61"
  /\ SetField(event[t].user_id, "current_category", None)
  /\ Goto(t, "L63")
  /\ UNCHANGED <<event, user_text, category, prompt, response_text, status,
                 pre, calls>>

\* reply_text = "質問内容を入力してください。"; reply; return (app.py:62-67)
StartReply(t) ==
  /\ pc[t] = "L63"
  /\ \E delivered \in BOOLEAN : reply_message(t, ASK_REPLY, delivered)
  /\ UNCHANGED <<user_status, event, user_text, category, prompt,
                 response_text, pre>>

\* mutant of AnotherSetCategory: the trigger also enters question mode, as
\* the start trigger does
AnotherSetCategory_AsStart(t) ==
  /\ pc[t] = "L71"
  /\ user_status' = [user_status EXCEPT ![event[t].user_id] =
                       [in_question_mode |-> TRUE, current_category |-> None]]
  /\ Goto(t, "L72")
  /\ UNCHANGED <<event, user_text, category, prompt, response_text, status,
                 pre, calls>>

\* user_status[user_id]["current_category"] = None (app.py:71)
AnotherSetCategory(t) ==
  /\ pc[t] = "L71"
  /\ SetField(event[t].user_id, "current_category", None)
  /\ Goto(t, "L72")
  /\ UNCHANGED <<event, user_text, category, prompt, response_text, status,
                 pre, calls>>

\* reply "質問内容を入力してください。"; return (app.py:72-76)
AnotherReply(t) ==
  /\ pc[t] = "L72"
  /\ \E delivered \in BOOLEAN : reply_message(t, ASK_REPLY, delivered)
  /\ UNCHANGED <<user_status, event, user_text, category, prompt,
                 response_text, pre>>

\* mutant of EndSetMode: question mode is not left
EndSetMode_Skipped(t) ==
  /\ pc[t] = "L80"
  /\ Goto(t, "L81")
  /\ UNCHANGED <<user_status, event, user_text, category, prompt,
                 response_text, status, pre, calls>>

\* user_status[user_id]["in_question_mode"] = False (app.py:80)
EndSetMode(t) ==
  /\ pc[t] = "L80"
  /\ SetField(event[t].user_id, "in_question_mode", FALSE)
  /\ Goto(t, "L81")
  /\ UNCHANGED <<event, user_text, category, prompt, response_text, status,
                 pre, calls>>

\* mutant of EndSetCategory: the category is not reset
EndSetCategory_Skipped(t) ==
  /\ pc[t] = "L81"
  /\ Goto(t, "L82")
  /\ UNCHANGED <<user_status, event, user_text, category, prompt,
                 response_text, status, pre, calls>>

\* user_status[user_id]["current_category"] = None (app.py:81)
EndSetCategory(t) ==
  /\ pc[t] = "L81"
  /\ SetField(event[t].user_id, "current_category", None)
  /\ Goto(t, "L82")
  /\ UNCHANGED <<event, user_text, category, prompt, response_text, status,
                 pre, calls>>

\* reply "ご利用ありがとうございました。"; return (app.py:82-86)
EndReply(t) ==
  /\ pc[t] = "L82"
  /\ \E delivered \in BOOLEAN : reply_message(t, FAREWELL_REPLY, delivered)
  /\ UNCHANGED <<user_status, event, user_text, category, prompt,
                 response_text, pre>>

\* mutant of SilentWhenIdle: the check of question mode is missing
NeverSilent(mode) == FALSE

\* if not user_status[user_id]["in_question_mode"]: return (app.py:89-90)
SilentWhenIdle(mode) == ~mode

CheckMode(t) ==
  /\ pc[t] = "L89"
  /\ IF SilentWhenIdle(user_status[event[t].user_id].in_question_mode)
       THEN ReturnOK(t)
       ELSE Goto(t, "L93") /\ UNCHANGED status
  /\ UNCHANGED <<user_status, event, user_text, category, prompt,
                 response_text, pre, calls>>

\* mutant of NeedsClassification: every question is classified
AlwaysClassify(cat) == TRUE

\* if not user_status[user_id]["current_category"] (app.py:93)
NeedsClassification(cat) == ~Truthy(cat)

CheckCategory(t) ==
  /\ pc[t] = "L93"
  /\ Goto(t, IF NeedsClassification(user_status[event[t].user_id].current_category)
               THEN "L94" ELSE "L97")
  /\ UNCHANGED <<user_status, event, user_text, category, prompt,
                 response_text, status, pre, calls>>

\* category = classify_question_by_chatgpt(user_text) (app.py:94)
Classify(t) ==
  /\ pc[t] = "L94"
  /\ \E api \in ClassifierOutcomes :
       /\ category' = [category EXCEPT ![t] =
                         Str(classify_question_by_chatgpt(user_text[t], api))]
       /\ Record(t, "classify", api.ok, api.content)
  /\ Goto(t, "L95")
  /\ UNCHANGED <<user_status, event, user_text, prompt, response_text, status,
                 pre>>

\* mutant of StoreCategory: the prompt is not composed before the
\* generation call
StoreCategory_SkipCompose(t) ==
  /\ pc[t] = "L95"
  /\ SetField(event[t].user_id, "current_category", category[t])
  /\ Goto(t, "L106")
  /\ UNCHANGED <<event, user_text, category, prompt, response_text, status,
                 pre, calls>>

\* user_status[user_id]["current_category"] = category (app.py:95)
StoreCategory(t) ==
  /\ pc[t] = "L95"
  /\ SetField(event[t].user_id, "current_category", category[t])
  /\ Goto(t, "L100")
  /\ UNCHANGED <<event, user_text, category, prompt, response_text, status,
                 pre, calls>>

\* category = user_status[user_id]["current_category"] (app.py:97)
ReuseCategory(t) ==
  /\ pc[t] = "L97"
  /\ category' = [category EXCEPT ![t] =
                    user_status[event[t].user_id].current_category]
  /\ Goto(t, "L100")
  /\ UNCHANGED <<user_status, event, user_text, prompt, response_text, status,
                 pre, calls>>

\* mutant of Compose: a failed read is swallowed and the turn goes on with
\* an empty prompt
Compose_SwallowsError(t) ==
  /\ pc[t] = "L100"
  /\ \E base_readable, ref_readable \in BOOLEAN :
       IF base_readable /\ ref_readable
         THEN /\ prompt' = [prompt EXCEPT ![t] =
                   build_prompt(map_category_to_file(category[t]), user_text[t])]
              /\ Record(t, "compose", TRUE, prompt'[t])
         ELSE /\ Record(t, "compose", FALSE, <<>>)
              /\ UNCHANGED prompt
  /\ Goto(t, "L106")
  /\ UNCHANGED <<user_status, event, user_text, category, response_text, pre,
                 status>>

\* category_file = map_category_to_file(category);
\* prompt = build_prompt(category_file, user_text): open() of prompt.txt or
\* of the category file may fail, and nothing catches it (app.py:100-103)
Compose(t) ==
  /\ pc[t] = "L100"
  /\ \E base_readable, ref_readable \in BOOLEAN :
       IF base_readable /\ ref_readable
         THEN /\ prompt' = [prompt EXCEPT ![t] =
                   build_prompt(map_category_to_file(category[t]), user_text[t])]
              /\ Record(t, "compose", TRUE, prompt'[t])
              /\ Goto(t, "L106")
              /\ UNCHANGED status
         ELSE /\ Record(t, "compose", FALSE, <<>>)
              /\ Raise(t)
              /\ UNCHANGED prompt
  /\ UNCHANGED <<user_status, event, user_text, category, response_text, pre>>

\* response_text = get_openai_response(prompt) (app.py:106)
Generate(t) ==
  /\ pc[t] = "L106"
  /\ \E api \in GeneratorOutcomes :
       /\ response_text' = [response_text EXCEPT ![t] =
                              get_openai_response(prompt[t], api)]
       /\ Record(t, "generate", api.ok, api.content)
  /\ Goto(t, "L109")
  /\ UNCHANGED <<user_status, event, user_text, category, prompt, status, pre>>

\* mutant of AnswerReply: a question that is the word "終了" ends the session
\* after the answer
AnswerReply_EndsSession(t) ==
  /\ pc[t] = "L109"
  /\ \E delivered \in BOOLEAN : reply_message(t, response_text[t], delivered)
  /\ IF user_text[t] = <<"shuuryou">>
       THEN user_status' = [user_status EXCEPT ![event[t].user_id] = DefaultState]
       ELSE UNCHANGED user_status
  /\ UNCHANGED <<event, user_text, category, prompt, response_text, pre>>

\* line_bot_api.reply_message(..., TextSendMessage(text=response_text))
\* (app.py:109-112)
AnswerReply(t) ==
  /\ pc[t] = "L109"
  /\ \E delivered \in BOOLEAN : reply_message(t, response_text[t], delivered)
  /\ UNCHANGED <<user_status, event, user_text, category, prompt,
                 response_text, pre>>

\* the HTTP response is sent; the frame and its locals are gone and the
\* thread is free for the next request
Respond(t) ==
  /\ pc[t] = "done"
  /\ pc' = [pc EXCEPT ![t] = "idle"]
  /\ event' = [event EXCEPT ![t] = NoEvent]
  /\ user_text' = [user_text EXCEPT ![t] = <<>>]
  /\ category' = [category EXCEPT ![t] = None]
  /\ prompt' = [prompt EXCEPT ![t] = <<>>]
  /\ response_text' = [response_text EXCEPT ![t] = <<>>]
  /\ status' = [status EXCEPT ![t] = 0]
  /\ pre' = [pre EXCEPT ![t] = NoLookup]
  /\ calls' = [calls EXCEPT ![t] = <<>>]
  /\ UNCHANGED user_status

\* the server gives each request a thread of its own (app.run, Flask's
\* threaded default) and nothing in app.py takes a lock: any thread takes its
\* next step at any time
Next ==
  \/ \E t \in Threads : Receive(t)
  \/ \E t \in Threads : Verify(t)
  \/ \E t \in Threads : CheckUser(t)
  \/ \E t \in Threads : CreateUser(t)
  \/ \E t \in Threads : Dispatch(t)
  \/ \E t \in Threads : StartSetMode(t)
  \/ \E t \in Threads : StartSetCategory(t)
  \/ \E t \in Threads : StartReply(t)
  \/ \E t \in Threads : AnotherSetCategory(t)
  \/ \E t \in Threads : AnotherReply(t)
  \/ \E t \in Threads : EndSetMode(t)
  \/ \E t \in Threads : EndSetCategory(t)
  \/ \E t \in Threads : EndReply(t)
  \/ \E t \in Threads : CheckMode(t)
  \/ \E t \in Threads : CheckCategory(t)
  \/ \E t \in Threads : Classify(t)
  \/ \E t \in Threads : StoreCategory(t)
  \/ \E t \in Threads : ReuseCategory(t)
  \/ \E t \in Threads : Compose(t)
  \/ \E t \in Threads : Generate(t)
  \/ \E t \in Threads : AnswerReply(t)
  \/ \E t \in Threads : Respond(t)

Spec == Init /\ [][Next]_vars

\* --------------------------------------------------- requests one at a time
\* The arrival pattern in which no two requests overlap: a request arrives
\* only while no other is in flight.  The steps are those of Next; with one
\* request in flight, they are the steps of that request's thread.

\* no other thread is handling a request
Alone(t) == \A s \in Threads \ {t} : pc[s] = "idle"

\* a request arrives while no other request is in flight
ReceiveAlone(t) == Alone(t) /\ Receive(t)

NextOneAtATime ==
  \/ \E t \in Threads : ReceiveAlone(t)
  \/ \E t \in Threads : Verify(t)
  \/ \E t \in Threads : CheckUser(t)
  \/ \E t \in Threads : CreateUser(t)
  \/ \E t \in Threads : Dispatch(t)
  \/ \E t \in Threads : StartSetMode(t)
  \/ \E t \in Threads : StartSetCategory(t)
  \/ \E t \in Threads : StartReply(t)
  \/ \E t \in Threads : AnotherSetCategory(t)
  \/ \E t \in Threads : AnotherReply(t)
  \/ \E t \in Threads : EndSetMode(t)
  \/ \E t \in Threads : EndSetCategory(t)
  \/ \E t \in Threads : EndReply(t)
  \/ \E t \in Threads : CheckMode(t)
  \/ \E t \in Threads : CheckCategory(t)
  \/ \E t \in Threads : Classify(t)
  \/ \E t \in Threads : StoreCategory(t)
  \/ \E t \in Threads : ReuseCategory(t)
  \/ \E t \in Threads : Compose(t)
  \/ \E t \in Threads : Generate(t)
  \/ \E t \in Threads : AnswerReply(t)
  \/ \E t \in Threads : Respond(t)

SpecOneAtATime == Init /\ [][NextOneAtATime]_vars

\* ------------------------------------------------------------ concurrency
\* Arrival patterns in which requests overlap, their threads interleaving
\* between any two of the steps above.  The concurrent specifications look
\* at two requests in flight at a time, with valid signatures, one text of
\* each kind, and external services that answer.

\* message texts of the concurrent specifications
ConcurrentTexts ==
  {START_TRIGGER, ANOTHER_TRIGGER, END_TRIGGER, <<"kyuuyo_ni_tsuite_oshiete">>}

\* at most one other request is in flight
RoomFor(t) == Cardinality({s \in Threads \ {t} : pc[s] # "idle"}) <= 1

\* the users whose requests other threads are handling
BusyUsers(t) == {event[s].user_id : s \in {r \in Threads \ {t} : pc[r] # "idle"}}

\* the external call made in this step of thread t, if any, returned, with
\* the Classifier naming "給与・勤務" or something outside the label set and
\* the Answer Generator giving a plain answer
Answered(t) ==
  \A i \in (Len(calls[t]) + 1)..Len(calls'[t]) :
    /\ calls'[t][i].ok
    /\ calls'[t][i].op = "classify" => calls'[t][i].content \in {CAT_PAY, <<"sonota">>}
    /\ calls'[t][i].op = "generate" => calls'[t][i].content = <<"kotae">>

\* a request arrives; every request comes from the same user
ReceiveSameUser(t) ==
  /\ RoomFor(t)
  /\ Receive(t)
  /\ event'[t].signature_ok
  /\ event'[t].text \in ConcurrentTexts
  /\ \A u \in Users : event'[t].user_id <= u

\* a request arrives from a user none of whose requests is in flight
ReceiveOtherUser(t) ==
  /\ RoomFor(t)
  /\ Receive(t)
  /\ event'[t].signature_ok
  /\ event'[t].text \in ConcurrentTexts
  /\ event'[t].user_id \notin BusyUsers(t)

\* requests of one user, handled concurrently
NextSameUser ==
  \/ \E t \in Threads : ReceiveSameUser(t)
  \/ \E t \in Threads : Verify(t)
  \/ \E t \in Threads : CheckUser(t)
  \/ \E t \in Threads : CreateUser(t)
  \/ \E t \in Threads : Dispatch(t)
  \/ \E t \in Threads : StartSetMode(t)
  \/ \E t \in Threads : StartSetCategory(t)
  \/ \E t \in Threads : StartReply(t) /\ Answered(t)
  \/ \E t \in Threads : AnotherSetCategory(t)
  \/ \E t \in Threads : AnotherReply(t) /\ Answered(t)
  \/ \E t \in Threads : EndSetMode(t)
  \/ \E t \in Threads : EndSetCategory(t)
  \/ \E t \in Threads : EndReply(t) /\ Answered(t)
  \/ \E t \in Threads : CheckMode(t)
  \/ \E t \in Threads : CheckCategory(t)
  \/ \E t \in Threads : Classify(t) /\ Answered(t)
  \/ \E t \in Threads : StoreCategory(t)
  \/ \E t \in Threads : ReuseCategory(t)
  \/ \E t \in Threads : Compose(t) /\ Answered(t)
  \/ \E t \in Threads : Generate(t) /\ Answered(t)
  \/ \E t \in Threads : AnswerReply(t) /\ Answered(t)
  \/ \E t \in Threads : Respond(t)

SpecSameUser == Init /\ [][NextSameUser]_vars

\* requests handled concurrently, those in flight coming from different users
NextAcrossUsers ==
  \/ \E t \in Threads : ReceiveOtherUser(t)
  \/ \E t \in Threads : Verify(t)
  \/ \E t \in Threads : CheckUser(t)
  \/ \E t \in Threads : CreateUser(t)
  \/ \E t \in Threads : Dispatch(t)
  \/ \E t \in Threads : StartSetMode(t)
  \/ \E t \in Threads : StartSetCategory(t)
  \/ \E t \in Threads : StartReply(t) /\ Answered(t)
  \/ \E t \in Threads : AnotherSetCategory(t)
  \/ \E t \in Threads : AnotherReply(t) /\ Answered(t)
  \/ \E t \in Threads : EndSetMode(t)
  \/ \E t \in Threads : EndSetCategory(t)
  \/ \E t \in Threads : EndReply(t) /\ Answered(t)
  \/ \E t \in Threads : CheckMode(t)
  \/ \E t \in Threads : CheckCategory(t)
  \/ \E t \in Threads : Classify(t) /\ Answered(t)
  \/ \E t \in Threads : StoreCategory(t)
  \/ \E t \in Threads : ReuseCategory(t)
  \/ \E t \in Threads : Compose(t) /\ Answered(t)
  \/ \E t \in Threads : Generate(t) /\ Answered(t)
  \/ \E t \in Threads : AnswerReply(t) /\ Answered(t)
  \/ \E t \in Threads : Respond(t)

SpecAcrossUsers == Init /\ [][NextAcrossUsers]_vars

\* ---------------------------------------------------------------- properties
\* C1-C10, C12-C17 and C20 are about a message handled while no other request
\* is in flight (SpecOneAtATime); C11, C18 and C19 are about requests that
\* overlap (SpecSameUser, SpecAcrossUsers).

\* handle_message has been entered for thread t's message
InHandler(t) == pc[t] \notin {"idle", "handle"} /\ event[t].signature_ok

\* handle_message has ended (returned or raised) for thread t's message
Handled(t) == pc[t] = "done" /\ event[t].signature_ok

\* the calls of kind op made for thread t's message
CallsOf(t, op) == SelectSeq(calls[t], LAMBDA c : c.op = op)

\* the texts given to the reply API for thread t's message, in order
Replies(t) == [i \in 1..Len(CallsOf(t, "reply")) |-> CallsOf(t, "reply")[i].content]

\* the kinds of the calls made for thread t's message, in order
Ops(t) == [i \in 1..Len(calls[t]) |-> calls[t][i].op]

\* the trimmed text of thread t's message
Trimmed(t) == strip(event[t].text)

\* the sender's record now
Now(t) == Lookup(event[t].user_id).state

\* C1: when a message whose trimmed text is the start trigger has been
\* handled, the sender is in question mode with no category, whatever the
\* record was before, and the reply API was given exactly the
\* prompt-for-question text.
C1_StartTrigger ==
  \A t \in Threads :
    Handled(t) /\ Trimmed(t) = START_TRIGGER =>
      /\ Now(t) = [in_question_mode |-> TRUE, current_category |-> None]
      /\ Replies(t) = <<ASK_REPLY>>

\* a start trigger, sent with surrounding whitespace by a user who was in
\* question mode with a category, has been handled
C1_Witness ==
  \E t \in Threads :
    /\ Handled(t) /\ status[t] = 200
    /\ event[t].text = <<"\t", "shitsumon_suru", "\n">>
    /\ pre[t].state = [in_question_mode |-> TRUE, current_category |-> Str(CAT_PAY)]

\* C2: when a message whose trimmed text is the end trigger has been
\* handled, the sender is out of question mode with no category, whatever the
\* record was before (idle included), and the reply API was given exactly the
\* farewell text.
C2_EndTrigger ==
  \A t \in Threads :
    Handled(t) /\ Trimmed(t) = END_TRIGGER =>
      /\ Now(t) = [in_question_mode |-> FALSE, current_category |-> None]
      /\ Replies(t) = <<FAREWELL_REPLY>>

\* an end trigger from a user who was in question mode with a category has
\* been handled
C2_Witness ==
  \E t \in Threads :
    /\ Handled(t) /\ status[t] = 200
    /\ Trimmed(t) = END_TRIGGER
    /\ pre[t].state = [in_question_mode |-> TRUE, current_category |-> Str(CAT_STAFF)]

\* C3: while a message that is no trigger keyword, from a user who was not in
\* question mode, is being handled and when it has been handled, no external
\* call has been made for it (no reply, no classification, no prompt
\* composition, no generation) and the user's state is what it was.
C3_IdleSilent ==
  \A t \in Threads :
    InHandler(t) /\ ~pre[t].state.in_question_mode /\ Trimmed(t) \notin Triggers =>
      /\ calls[t] = <<>>
      /\ Now(t) = pre[t].state
      /\ pc[t] = "done" => status[t] = 200

\* an ordinary text from a registered idle user has been handled
C3_Witness ==
  \E t \in Threads :
    /\ Handled(t)
    /\ pre[t].registered /\ ~pre[t].state.in_question_mode
    /\ event[t].text = <<"kyuuyo_ni_tsuite_oshiete">>

\* C4: the Classifier is called at most once for a message, and only for an
\* ordinary text from a user who was in question mode with no category; for
\* an ordinary text from a user whose category was set, no Classifier call is
\* made and the category used for the prompt is the stored one.
C4_ClassifyOncePerTopic ==
  \A t \in Threads :
    InHandler(t) =>
      /\ Len(CallsOf(t, "classify")) <= 1
      /\ CallsOf(t, "classify") # <<>> =>
           /\ pre[t].state.in_question_mode
           /\ pre[t].state.current_category = None
           /\ Trimmed(t) \notin Triggers
      /\ pre[t].state.current_category # None /\ Trimmed(t) \notin Triggers =>
           /\ CallsOf(t, "classify") = <<>>
           /\ pc[t] \in {"L100", "L106", "L109"} =>
                category[t] = pre[t].state.current_category
           /\ \A i \in 1..Len(calls[t]) :
                calls[t][i].op = "compose" /\ calls[t][i].ok =>
                  calls[t][i].content =
                    build_prompt(map_category_to_file(pre[t].state.current_category),
                                 Trimmed(t))
           /\ Now(t) = pre[t].state

\* a question asked while a category was stored has been answered without a
\* Classifier call
C4_Witness ==
  \E t \in Threads :
    /\ Handled(t) /\ status[t] = 200
    /\ pre[t].state = [in_question_mode |-> TRUE, current_category |-> Str(CAT_PAY)]
    /\ Trimmed(t) \notin Triggers
    /\ Ops(t) = <<"compose", "generate", "reply">>

\* C5: every stored current_category is None or one of the three labels.
C5_CategoryInLabels ==
  \A u \in DOMAIN user_status :
    \/ user_status[u].current_category = None
    \/ /\ ~user_status[u].current_category.isNone
       /\ user_status[u].current_category.str \in Labels

\* the model answered the classification request with something outside the
\* label set and the default category has been stored
C5_Witness ==
  \E t \in Threads :
    /\ InHandler(t) /\ pc[t] = "L100"
    /\ Len(calls[t]) = 1 /\ calls[t][1].op = "classify" /\ calls[t][1].ok
    /\ strip(calls[t][1].content) \notin Labels
    /\ user_status[event[t].user_id].current_category = Str(CAT_EVENT)

\* C6: when the text of the first message of a user without a record is
\* about to be interpreted, the user's record exists and is
\* {in_question_mode: False, current_category: None}.
C6_FirstContact ==
  \A t \in Threads :
    pc[t] = "L59" /\ ~pre[t].registered =>
      /\ event[t].user_id \in DOMAIN user_status
      /\ user_status[event[t].user_id] =
           [in_question_mode |-> FALSE, current_category |-> None]

\* the first message of a user is about to be interpreted while another
\* user already has a record
C6_Witness ==
  \E t \in Threads :
    /\ pc[t] = "L59" /\ ~pre[t].registered
    /\ DOMAIN user_status # {event[t].user_id}

\* the sender was not in question mode and the text is no trigger keyword
IdleOrdinary(t) == ~pre[t].state.in_question_mode /\ Trimmed(t) \notin Triggers

\* reading prompt.txt or the category file failed for thread t's message
ComposeFailed(t) == \E i \in 1..Len(calls[t]) : calls[t][i].op = "compose" /\ ~calls[t][i].ok

\* C7 as claimed: for every handled message the reply API was called exactly
\* once, except for an ordinary text from an idle user, for which it was not
\* called.
C7_ReplyOnce_Claimed ==
  \A t \in Threads :
    Handled(t) =>
      Len(Replies(t)) = IF IdleOrdinary(t) THEN 0 ELSE 1

\* C7 (amended): for every message the reply API is called at most once; when
\* the message has been handled it was called zero times exactly if the
\* sender was idle and the text no trigger keyword, or if reading a template
\* file failed in an ordinary-question turn, and once otherwise.
C7_ReplyOnce ==
  \A t \in Threads :
    /\ Len(Replies(t)) <= 1
    /\ Handled(t) =>
         Len(Replies(t)) = IF IdleOrdinary(t) \/ ComposeFailed(t) THEN 0 ELSE 1

\* an ordinary question of a user in question mode has been handled without
\* a reply, because a template file could not be read
C7_Witness ==
  \E t \in Threads :
    /\ Handled(t) /\ status[t] = 500
    /\ pre[t].state.in_question_mode /\ Trimmed(t) \notin Triggers
    /\ ComposeFailed(t) /\ Replies(t) = <<>>

\* C8: when a message whose trimmed text is the "ask another question"
\* trigger has been handled, the sender's category is None, in_question_mode
\* is what it was, and the reply API was given exactly the
\* prompt-for-question text of the start trigger.
C8_AnotherQuestion ==
  \A t \in Threads :
    Handled(t) /\ Trimmed(t) = ANOTHER_TRIGGER =>
      /\ Now(t) = [in_question_mode |-> pre[t].state.in_question_mode,
                   current_category |-> None]
      /\ Replies(t) = <<ASK_REPLY>>

\* the trigger from a user in question mode with a category has been handled
C8_Witness ==
  \E t \in Threads :
    /\ Handled(t) /\ status[t] = 200
    /\ Trimmed(t) = ANOTHER_TRIGGER
    /\ pre[t].state = [in_question_mode |-> TRUE, current_category |-> Str(CAT_STAFF)]

\* the completion call of the Answer Generator raised for thread t's message
GenerateFailed(t) ==
  \E i \in 1..Len(calls[t]) : calls[t][i].op = "generate" /\ ~calls[t][i].ok

\* C9: once the Answer Generator's completion call has failed, the handler
\* goes on to the reply with response_text equal to the apology string, and
\* when the message has been handled the reply API was called exactly once,
\* with exactly that string.
C9_GeneratorFailure ==
  \A t \in Threads :
    GenerateFailed(t) =>
      \/ pc[t] = "L109" /\ response_text[t] = APOLOGY /\ Replies(t) = <<>>
      \/ pc[t] = "done" /\ Replies(t) = <<APOLOGY>>

\* a question whose generation call failed has been handled and answered
C9_Witness ==
  \E t \in Threads :
    /\ Handled(t) /\ status[t] = 200
    /\ GenerateFailed(t)
    /\ Ops(t) = <<"classify", "compose", "generate", "reply">>

\* the completion call of the Classifier raised for thread t's message
ClassifyFailed(t) ==
  calls[t] # <<>> /\ calls[t][1].op = "classify" /\ ~calls[t][1].ok

\* C10: once the Classifier's completion call has failed, the handler goes
\* on as after a classification: its category is "イベント", which is stored
\* as current_category; the prompt, once composed, is the one built with the
\* reference file of "イベント"; and, unless a template file could not be
\* read, when the message has been handled the calls made were classify,
\* compose, generate, reply and the reply was the generated answer.
C10_ClassifierFailure ==
  \A t \in Threads :
    ClassifyFailed(t) =>
      /\ pc[t] \in {"L95", "L100", "L106", "L109", "done"}
      /\ category[t] = Str(CAT_EVENT)
      /\ pc[t] # "L95" => Now(t).current_category = Str(CAT_EVENT)
      /\ pc[t] \in {"L106", "L109"} \/ (pc[t] = "done" /\ ~ComposeFailed(t)) =>
           prompt[t] = FileText["prompt.txt"] \o <<"\n", "\n">>
                         \o FileText["ibento_ni_tsuite.txt"]
                         \o <<"\n", "\n", QUESTION_HEADER, "\n">>
                         \o Trimmed(t) \o <<"\n">>
      /\ pc[t] = "done" /\ ~ComposeFailed(t) =>
           /\ Ops(t) = <<"classify", "compose", "generate", "reply">>
           /\ Replies(t) = <<response_text[t]>>
           /\ calls[t][3].ok =>
                response_text[t] = remove(strip(calls[t][3].content), EMPHASIS)

\* a question whose classification call failed has been handled: it was
\* answered with the text the generation call returned
C10_Witness ==
  \E t \in Threads :
    /\ Handled(t) /\ status[t] = 200
    /\ ClassifyFailed(t)
    /\ Len(calls[t]) = 4 /\ calls[t][3].ok
    /\ Replies(t) = <<<<"kotae">>>>

\* C12 as claimed: a request whose signature does not verify is answered
\* with status 400: handle_message is never entered for it, no external call
\* (so no reply) is made for it, and the step that rejects it leaves
\* user_status as it was.
C12_BadSignature ==
  /\ [](\A t \in Threads :
          pc[t] # "idle" /\ ~event[t].signature_ok =>
            /\ pc[t] \in {"handle", "done"}
            /\ calls[t] = <<>>
            /\ pc[t] = "done" => status[t] = 400)
  /\ [][\A t \in Threads :
          ~event[t].signature_ok /\ pc[t] = "handle" /\ pc'[t] # "handle" =>
            user_status' = user_status]_vars

\* C12, for the requests that carry a signature header: one whose signature
\* does not verify is answered with status 400 by handler.handle's exception,
\* handle_message is never entered for it, no external call is made for it and
\* user_status is left as it was.  A request without the header fails at line
\* 34 instead, with no call and no change of user_status either.
C12_InvalidSignature ==
  /\ [](\A t \in Threads :
          pc[t] # "idle" /\ ~event[t].signature_ok =>
            /\ pc[t] \in {"handle", "done"}
            /\ calls[t] = <<>>
            /\ pc[t] = "done" =>
                 status[t] = IF event[t].has_signature THEN 400 ELSE 500)
  /\ [][\A t \in Threads :
          ~event'[t].signature_ok /\ pc'[t] = "done" /\ pc[t] # "done" =>
            user_status' = user_status]_vars

\* a request with a bad signature has been rejected while a user has a
\* record in question mode
C12_Witness ==
  \E t \in Threads :
    /\ pc[t] = "done" /\ event[t].has_signature
    /\ ~event[t].signature_ok /\ status[t] = 400
    /\ event[t].text = START_TRIGGER
    /\ event[t].user_id \in DOMAIN user_status
    /\ user_status[event[t].user_id] =
         [in_question_mode |-> TRUE, current_category |-> Str(CAT_EVENT)]

\* C13 as claimed: every request with a valid signature is answered with
\* status 200, whatever happened in handle_message.
C13_AlwaysAcknowledged ==
  \A t \in Threads :
    pc[t] = "done" /\ event[t].signature_ok => status[t] = 200

\* the reference document of a category, as the Template Store holds it
ReferenceDocument(label) ==
  CASE label = CAT_EVENT -> <<"ibento_reference", "\n">>
    [] label = CAT_STAFF -> <<"sutaffu_ruuru_reference", "\n">>
    [] label = CAT_PAY -> <<"kyuuyo_kinmu_reference", "\n">>

\* the labelled question section: the header line, then the question on a
\* line of its own
QuestionSection(question) == <<QUESTION_HEADER, "\n">> \o question \o <<"\n">>

\* the category of the sender, whose prompt thread t composes
CategoryFor(t) == Now(t).current_category.str

\* C14: every prompt composed is exactly the base template, a blank line,
\* the reference document of the sender's category, a blank line and the
\* labelled question section, for every category and question text; it is
\* as long as its parts together, so nothing is cut.
C14_ComposedPrompt ==
  \A t \in Threads :
    InHandler(t) /\ pc[t] \in {"L106", "L109"} =>
      /\ CategoryFor(t) \in Labels
      /\ prompt[t] = <<"base_instructions", "\n">> \o <<"\n", "\n">>
                       \o ReferenceDocument(CategoryFor(t)) \o <<"\n", "\n">>
                       \o QuestionSection(Trimmed(t))
      /\ Len(prompt[t]) = 2 + 2 + Len(ReferenceDocument(CategoryFor(t))) + 2
                            + 2 + Len(Trimmed(t)) + 1
      /\ calls[t][Len(CallsOf(t, "classify")) + 1] =
           [op |-> "compose", ok |-> TRUE, content |-> prompt[t]]

\* a prompt has been composed for a question of the category "給与・勤務"
C14_Witness ==
  \E t \in Threads :
    /\ InHandler(t) /\ pc[t] = "L106"
    /\ CategoryFor(t) = CAT_PAY
    /\ Trimmed(t) = <<"kyuuyo_ni_tsuite_oshiete">>
    /\ Len(prompt[t]) = 12

\* the sender was in question mode and the text is no trigger keyword
OrdinaryQuestion(t) ==
  InHandler(t) /\ pre[t].state.in_question_mode /\ Trimmed(t) \notin Triggers

\* the label the Classifier owes for the outcome c of its completion call
ExpectedLabel(c) ==
  IF c.ok /\ strip(c.content) \in Labels THEN strip(c.content) ELSE CAT_EVENT

\* C15: throughout an ordinary-question turn and after it, in_question_mode
\* is still true; a category that was set is unchanged; a category that was
\* None is None or, after a Classifier call, the label classified. This holds
\* in every state of the turn, so whatever the Answer Generator returned.
C15_OrdinaryTurnFrame ==
  \A t \in Threads :
    OrdinaryQuestion(t) =>
      /\ Now(t).in_question_mode
      /\ pre[t].state.current_category # None =>
           Now(t).current_category = pre[t].state.current_category
      /\ pre[t].state.current_category = None =>
           \/ Now(t).current_category = None /\ pc[t] \notin {"L100", "L106", "L109"}
           \/ /\ CallsOf(t, "classify") # <<>>
              /\ Now(t).current_category = Str(ExpectedLabel(calls[t][1]))

\* a question that is the word "終了" has been answered with the apology,
\* in a turn that classified it
C15_Witness ==
  \E t \in Threads :
    /\ Handled(t) /\ status[t] = 200
    /\ Trimmed(t) = <<"shuuryou">>
    /\ pre[t].state = [in_question_mode |-> TRUE, current_category |-> None]
    /\ GenerateFailed(t)
    /\ Now(t) = [in_question_mode |-> TRUE, current_category |-> Str(CAT_STAFF)]

IsPrefix(a, b) == Len(a) <= Len(b) /\ a = SubSeq(b, 1, Len(a))

\* C16: in an ordinary-question turn the external calls are made in the
\* order classify (only if the category was unset), compose, generate,
\* reply; the classified label is stored before the prompt is composed; the
\* reply carries the text the generation call gave.
C16_StepOrder ==
  \A t \in Threads :
    OrdinaryQuestion(t) =>
      /\ IF Truthy(pre[t].state.current_category)
           THEN IsPrefix(Ops(t), <<"compose", "generate", "reply">>)
           ELSE IsPrefix(Ops(t), <<"classify", "compose", "generate", "reply">>)
      /\ pc[t] = "L95" => Ops(t) = <<"classify">>
      /\ CallsOf(t, "compose") # <<>> /\ CallsOf(t, "classify") # <<>> =>
           Now(t).current_category = Str(ExpectedLabel(calls[t][1]))
      /\ CallsOf(t, "reply") # <<>> =>
           LET g == CallsOf(t, "generate")[1]
           IN Replies(t) = <<IF g.ok THEN remove(strip(g.content), EMPHASIS)
                                     ELSE APOLOGY>>

\* a turn that classified, composed, generated and replied has ended
C16_Witness ==
  \E t \in Threads :
    /\ Handled(t) /\ status[t] = 200
    /\ Ops(t) = <<"classify", "compose", "generate", "reply">>
    /\ calls[t][1].ok /\ calls[t][3].ok
    /\ calls[t][3].content = <<" ", "**", "kotae", "**", "\n">>

\* C17: with messages handled one at a time, a record has
\* in_question_mode false and a category only between lines 80 and 81 of
\* the handler of that user's end trigger; so in every state between two
\* messages of a user, in_question_mode = false implies current_category =
\* None, and an end trigger handled for an idle user leaves the record as it
\* was.
C17_IdleHasNoCategory ==
  /\ \A u \in DOMAIN user_status :
       ~user_status[u].in_question_mode /\ user_status[u].current_category # None =>
         \E t \in Threads :
           pc[t] = "L81" /\ event[t].user_id = u /\ Trimmed(t) = END_TRIGGER
  /\ \A t \in Threads :
       Handled(t) /\ Trimmed(t) = END_TRIGGER /\ ~pre[t].state.in_question_mode =>
         Now(t) = pre[t].state

\* the end trigger of a registered idle user has been handled, while another
\* user is in question mode with a category
C17_Witness ==
  \E t \in Threads :
    /\ Handled(t) /\ status[t] = 200
    /\ Trimmed(t) = END_TRIGGER
    /\ pre[t].registered /\ ~pre[t].state.in_question_mode
    /\ \E u \in DOMAIN user_status :
         user_status[u].in_question_mode /\ user_status[u].current_category # None

\* C20: when reading a template file failed in an ordinary-question turn,
\* the request ended with the exception (status 500), no reply was sent and
\* no generation call made, in_question_mode is still true, and the category
\* is the one classified in this turn if the turn classified, else what it
\* was.
C20_TemplateReadFailure ==
  \A t \in Threads :
    InHandler(t) /\ ComposeFailed(t) =>
      /\ pc[t] = "done" /\ status[t] = 500
      /\ Replies(t) = <<>>
      /\ CallsOf(t, "generate") = <<>>
      /\ Now(t).in_question_mode
      /\ IF CallsOf(t, "classify") # <<>>
           THEN /\ pre[t].state.current_category = None
                /\ Now(t).current_category = Str(ExpectedLabel(calls[t][1]))
           ELSE Now(t) = pre[t].state

\* a turn that classified its question as "スタッフルール" has ended with a
\* failed template read
C20_Witness ==
  \E t \in Threads :
    /\ Handled(t) /\ ComposeFailed(t)
    /\ Ops(t) = <<"classify", "compose">>
    /\ pre[t].state = [in_question_mode |-> TRUE, current_category |-> None]
    /\ Now(t) = [in_question_mode |-> TRUE, current_category |-> Str(CAT_STAFF)]

\* a session record in which a category is held only in question mode
Consistent(r) == r.in_question_mode \/ r.current_category = None

\* C11: handling a message is not atomic.  With two messages of one user
\* handled concurrently, a record passes from "category only in question
\* mode" to "category outside question mode" only in one of two steps of a
\* handler of that user: line 80 of the end trigger (which line 81 undoes),
\* or line 95 of a question storing its category after another handler has
\* left question mode underneath it.  The second never happens when messages
\* are handled one at a time, and its outcome stays when both handlers are over.
C11_NotAtomic ==
  [][\A u \in DOMAIN user_status :
       Consistent(user_status[u]) /\ ~Consistent(user_status'[u]) =>
         \E t \in Threads :
           /\ event[t].user_id = u
           /\ pc'[t] # pc[t]
           /\ \/ pc[t] = "L80"
              \/ pc[t] = "L95" /\ ~user_status[u].in_question_mode]_vars

\* an end trigger and a question of the same user have both been handled, the
\* question was classified, and the record is left out of question mode with
\* the question's category in it
C11_Witness ==
  \E t \in Threads : \E s \in Threads \ {t} :
    /\ Handled(t) /\ Handled(s)
    /\ event[t].user_id = event[s].user_id
    /\ Trimmed(t) = END_TRIGGER
    /\ Len(CallsOf(t, "reply")) = 1
    /\ Len(CallsOf(s, "classify")) = 1
    /\ Len(CallsOf(s, "reply")) = 1
    /\ ~Now(t).in_question_mode
    /\ Now(t).current_category = category[s]
    /\ category[s] # None

\* C19: the session store is get-or-create: the lazy initialisation of lines
\* 53-56 leaves every record that exists as it is, also when two messages of
\* a user not seen before are handled concurrently.
C19_GetOrCreate ==
  [][\A t \in Threads :
       pc[t] = "L53" /\ pc'[t] # pc[t] =>
         \A u \in DOMAIN user_status : user_status'[u] = user_status[u]]_vars

\* the outcome of the completion call of kind op made for thread t's message
ResultOf(t, op) ==
  [ok |-> CallsOf(t, op)[1].ok, content |-> CallsOf(t, op)[1].content]

\* what handling thread t's message with no other handler running gives,
\* from the sender's record when the message arrived: the record left and
\* the replies sent, lines 59-112 read as one sequential function
HandledAlone(t) ==
  LET before == pre[t].state
      text == Trimmed(t)
  IN  IF text = START_TRIGGER
        THEN [state |-> [in_question_mode |-> TRUE, current_category |-> None],
              replies |-> <<ASK_REPLY>>]
      ELSE IF text = ANOTHER_TRIGGER
        THEN [state |-> [before EXCEPT !.current_category = None],
              replies |-> <<ASK_REPLY>>]
      ELSE IF text = END_TRIGGER
        THEN [state |-> [in_question_mode |-> FALSE, current_category |-> None],
              replies |-> <<FAREWELL_REPLY>>]
      ELSE IF ~before.in_question_mode
        THEN [state |-> before, replies |-> <<>>]
      ELSE
        LET cat == IF Truthy(before.current_category)
                     THEN before.current_category
                     ELSE Str(classify_question_by_chatgpt(
                                text, ResultOf(t, "classify")))
        IN  [state |-> [before EXCEPT !.current_category = cat],
             replies |-> <<get_openai_response(
                             build_prompt(map_category_to_file(cat), text),
                             ResultOf(t, "generate"))>>]

\* C18: with the handlers in flight belonging to different users, a user's
\* record is created or changed only by a step of a handler of that user's
\* message, and every message handled leaves its sender's record and sends
\* the replies that handling it alone would, from the record the sender had
\* when it arrived and with the same Classifier and Answer Generator results;
\* so each user's messages come out as if handled alone in arrival order.
C18_OtherUsersUntouched ==
  /\ [][\A u \in DOMAIN user_status' :
          (u \notin DOMAIN user_status \/ user_status'[u] # user_status[u]) =>
            \E t \in Threads : event[t].user_id = u /\ pc'[t] # pc[t]]_vars
  /\ [](\A t \in Threads :
          Handled(t) =>
            /\ Now(t) = HandledAlone(t).state
            /\ Replies(t) = HandledAlone(t).replies)

\* two users' messages are in flight together: one user's question has been
\* classified, answered and handled, after the other user's start trigger
\* changed that user's record, its handler still running
C18_Witness ==
  \E t \in Threads : \E s \in Threads \ {t} :
    /\ Handled(t)
    /\ Trimmed(t) \notin Triggers
    /\ Len(CallsOf(t, "classify")) = 1
    /\ Len(Replies(t)) = 1
    /\ Now(t).current_category = category[t]
    /\ InHandler(s) /\ pc[s] = "L63"
    /\ event[s].user_id # event[t].user_id
    /\ Now(s).in_question_mode
    /\ ~pre[s].state.in_question_mode

====
